---- MODULE Spec2Model ----
(***************************************************************************)
(* LoginProvisionedDevice (go/engine/login_provisioned_device.go): the     *)
(* engine that logs in with the device already provisioned on this client. *)
(* Run wraps run; run checks the session, calls loadMe (the validator) and *)
(* delegates to the login state; Run emits the login notification and the   *)
(* login hooks when run returns nil.                                        *)
(***************************************************************************)
EXTENDS Integers, Sequences, FiniteSets, TLC

\* ---------------------------------------------------------------- bounds
MaxRuns == 2

\* ------------------------------------------------------------ value sets
Engines == {"e1", "e2"}

Alice == <<"a">>
Bob == <<"b">>
Users == {Alice, Bob}
Empty == <<>>
\* the strings a caller hands to NewLoginProvisionedDevice
RawUsernames == {Empty, <<"a">>, <<"A">>, <<"b">>}

NoUID == "NoUID"
UIDs == {"uid_a", "uid_b"}

DeviceIDs == {"D1", "D2"}
NoEntry == "NoEntry"
NilDevice == "NilDevice"
\* Env.GetUsername() of a configuration without a current user
NoUser == <<>>

nil == "nil"
errNoConfig == "errNoConfig"
errNoDevice == "errNoDevice"
UserDeletedError == "UserDeletedError"
LoadErrors == {"LoadErrA", "LoadErrB"}
LoginErrors == {"LoginErrA", "LoginErrB"}
SaveError == "SaveError"
NukeError == "NukeError"

SCOk == "SCOk"
SCDeleted == "SCDeleted"
none == "none"

\* ------------------------------------------------------ library helpers
ToLower(c) ==
    CASE c = "A" -> "a"
      [] c = "B" -> "b"
      [] OTHER -> c

ToUpper(c) ==
    CASE c = "a" -> "A"
      [] c = "b" -> "B"
      [] OTHER -> c

\* libkb.NewNormalizedUsername: the lower-cased string
NewNormalizedUsername(s) == [i \in 1..Len(s) |-> ToLower(s[i])]

\* NormalizedUsername.Eq
Eq(n1, n2) == n1 = n2

UIDOf(u) == IF u = Alice THEN "uid_a" ELSE "uid_b"

\* Env.GetUsernameForUID
GetUsernameForUID(uid) ==
    CASE uid = "uid_a" -> Alice
      [] uid = "uid_b" -> Bob
      [] OTHER -> Empty

\* ------------------------------------------------------------------ state
VARIABLES
    session,          \* uid of the logged-in session, or NoUID
    config,           \* local configuration: [current, users]
    pc,               \* position of each engine's Run
    username,         \* e.username
    SecretStoreOnly,  \* e.SecretStoreOnly
    start,            \* session, config and e.username when Run was invoked
    in, uid,          \* run: result of isLoggedIn
    deviceID,         \* loadMe: config.GetDeviceID()
    upak,             \* loadMe: result of LoadV2
    nu,               \* loadMe: nu
    err,              \* run: err returned by e.loadMe
    runErr,           \* Run: value returned by e.run
    result,           \* value returned by Run
    calls,            \* calls made during the current invocation, in order
    runs              \* number of invocations of Run so far

vars == <<session, config, pc, username, SecretStoreOnly, start, in, uid,
          deviceID, upak, nu, err, runErr, result, calls, runs>>

Call(op, arg, res) == [op |-> op, arg |-> arg, res |-> res]

Configs == [current : Users \cup {NoUser},
            users : [Users -> {NoEntry, NilDevice} \cup DeviceIDs]]

\* loadMe: upak before LoadV2 returned
NoUpak == [Username |-> Empty, Status |-> none,
           Devices |-> [d \in DeviceIDs |-> "absent"]]
NoStart == [session |-> NoUID, username |-> Empty,
            config |-> [current |-> NoUser, users |-> [u \in Users |-> NoEntry]]]

\* a logged-in session belongs to the configured current user
SessionMatchesConfig(s, c) ==
    s # NoUID =>
        /\ c.current = GetUsernameForUID(s)
        /\ c.users[c.current] # NoEntry

\* ---------------------------------------------------------------- Init
Idle(e) == e = "e2"

Init ==
    /\ session \in UIDs \cup {NoUID}
    /\ config \in Configs
    /\ SessionMatchesConfig(session, config)
    /\ pc = [e \in Engines |-> "idle"]
    /\ \E raw \in RawUsernames, sso \in BOOLEAN :
          /\ username = [e \in Engines |->
                            IF Idle(e) THEN Empty ELSE NewNormalizedUsername(raw)]
          /\ SecretStoreOnly = [e \in Engines |-> IF Idle(e) THEN FALSE ELSE sso]
    /\ start = [e \in Engines |-> NoStart]
    /\ in = [e \in Engines |-> FALSE]
    /\ uid = [e \in Engines |-> NoUID]
    /\ deviceID = [e \in Engines |-> none]
    /\ upak = [e \in Engines |-> NoUpak]
    /\ nu = [e \in Engines |-> Empty]
    /\ err = [e \in Engines |-> none]
    /\ runErr = [e \in Engines |-> none]
    /\ result = [e \in Engines |-> none]
    /\ calls = [e \in Engines |-> <<>>]
    /\ runs = [e \in Engines |-> IF Idle(e) THEN MaxRuns ELSE 0]

\* ------------------------------------------------------------- run: entry
\* Run is invoked: e.run starts with fresh locals
Run(e) ==
    /\ pc[e] \in {"idle", "done"}
    /\ runs[e] < MaxRuns
    /\ runs' = [runs EXCEPT ![e] = @ + 1]
    /\ pc' = [pc EXCEPT ![e] = "run"]
    /\ start' = [start EXCEPT ![e] =
                    [session |-> session, username |-> username[e], config |-> config]]
    /\ in' = [in EXCEPT ![e] = FALSE]
    /\ uid' = [uid EXCEPT ![e] = NoUID]
    /\ deviceID' = [deviceID EXCEPT ![e] = none]
    /\ upak' = [upak EXCEPT ![e] = NoUpak]
    /\ nu' = [nu EXCEPT ![e] = Empty]
    /\ err' = [err EXCEPT ![e] = none]
    /\ runErr' = [runErr EXCEPT ![e] = none]
    /\ result' = [result EXCEPT ![e] = none]
    /\ calls' = [calls EXCEPT ![e] = <<>>]
    /\ UNCHANGED <<session, config, username, SecretStoreOnly>>

\* run: "already logged in?" condition
AlreadyLoggedInAnyUser(isIn, u, name) == isIn
AlreadyLoggedInOnlyEmpty(isIn, u, name) == isIn /\ Len(name) = 0
AlreadyLoggedIn(isIn, u, name) ==
    isIn /\ (Len(name) = 0 \/ Eq(GetUsernameForUID(u), name))

\* run: isLoggedIn and the short circuit
IsLoggedIn(e) ==
    /\ pc[e] = "run"
    /\ LET isIn == session # NoUID
           short == AlreadyLoggedIn(isIn, session, username[e])
       IN /\ in' = [in EXCEPT ![e] = isIn]
          /\ uid' = [uid EXCEPT ![e] = session]
          /\ calls' = [calls EXCEPT ![e] = Append(@, Call("isLoggedIn", Empty, session))]
          /\ IF short
                THEN /\ runErr' = [runErr EXCEPT ![e] = nil]
                     /\ pc' = [pc EXCEPT ![e] = "Run"]
                ELSE /\ pc' = [pc EXCEPT ![e] = "loadMe"]
                     /\ UNCHANGED runErr
    /\ UNCHANGED <<session, config, username, SecretStoreOnly, start, deviceID,
                   upak, nu, err, result, runs>>

\* ---------------------------------------------------------------- loadMe
\* Env.GetConfig().GetUserConfig(): the entry of the current user
GetUserConfig(c) == IF c.current \in Users THEN c.users[c.current] ELSE NoEntry

\* Env.GetConfig().GetUserConfigForUsername(nu)
GetUserConfigForUsername(c, n) == IF n \in Users THEN c.users[n] ELSE NoEntry

\* loadMe: the error decided from the local configuration alone
LocalConfigErrNilDeviceAccepted(readFailed, entry) ==
    IF readFailed \/ entry = NoEntry THEN errNoConfig ELSE nil
LocalConfigErr(readFailed, entry) ==
    IF readFailed THEN errNoConfig
    ELSE IF entry = NoEntry THEN errNoConfig
    ELSE IF entry = NilDevice THEN errNoDevice
    ELSE nil

\* loadMe: read the user config and its device ID
LoadMeConfig(e) ==
    /\ pc[e] = "loadMe"
    /\ \E readFailed \in BOOLEAN :
          LET self == Len(username[e]) = 0
              entry == IF self THEN GetUserConfig(config)
                       ELSE GetUserConfigForUsername(config, username[e])
              op == IF self THEN "GetUserConfig" ELSE "GetUserConfigForUsername"
              res == IF readFailed THEN "error" ELSE entry
              lerr == LocalConfigErr(readFailed, entry)
          IN /\ calls' = [calls EXCEPT ![e] = Append(@, Call(op, username[e], res))]
             /\ nu' = [nu EXCEPT ![e] = IF self THEN Empty ELSE username[e]]
             /\ IF lerr # nil
                   THEN /\ err' = [err EXCEPT ![e] = lerr]
                        /\ pc' = [pc EXCEPT ![e] = "loaded"]
                        /\ UNCHANGED deviceID
                   ELSE /\ deviceID' = [deviceID EXCEPT ![e] = entry]
                        /\ pc' = [pc EXCEPT ![e] = "LoadV2"]
                        /\ UNCHANGED err
    /\ UNCHANGED <<session, config, username, SecretStoreOnly, start, in, uid,
                   upak, runErr, result, runs>>

\* the records the identity loader can return for a user
UpaksOf(u) ==
    {r \in [Username : {u, [i \in 1..Len(u) |-> ToUpper(u[i])]},
            Status : {SCOk, SCDeleted},
            Devices : [DeviceIDs -> {"absent", "active", "revoked"}]] : TRUE}

\* loadMe: upak.Current.Status == keybase1.StatusCode_SCDeleted
IsDeletedNever(u) == FALSE
IsDeleted(u) == u.Status = SCDeleted

\* loadMe: LoadV2 with force poll, then the account status
LoadMeLoadV2(e) ==
    /\ pc[e] = "LoadV2"
    /\ LET self == Len(username[e]) = 0
           target == IF self THEN config.current ELSE username[e]
           arg == [self |-> self, name |-> username[e], forcePoll |-> TRUE]
       IN \/ \E lerr \in LoadErrors :
                /\ calls' = [calls EXCEPT ![e] = Append(@, Call("LoadV2", arg, lerr))]
                /\ err' = [err EXCEPT ![e] = lerr]
                /\ pc' = [pc EXCEPT ![e] = "loaded"]
                /\ UNCHANGED upak
          \/ \E r \in UpaksOf(target) :
                /\ calls' = [calls EXCEPT ![e] = Append(@, Call("LoadV2", arg, nil))]
                /\ upak' = [upak EXCEPT ![e] = r]
                /\ IF IsDeleted(r)
                      THEN /\ err' = [err EXCEPT ![e] = UserDeletedError]
                           /\ pc' = [pc EXCEPT ![e] = "loaded"]
                      ELSE /\ pc' = [pc EXCEPT ![e] = "device"]
                           /\ UNCHANGED err
    /\ UNCHANGED <<session, config, username, SecretStoreOnly, start, in, uid,
                   deviceID, nu, runErr, result, runs>>

\* upak.Current.FindSigningDeviceKey(deviceID): nil, or the key with its revocation
FindSigningDeviceKey(u, d) ==
    IF d \in DOMAIN u.Devices THEN u.Devices[d] ELSE "absent"

\* loadMe: nukeDevice
NukeDeviceAlways(device) == TRUE
NukeDeviceOnlyMissing(device) == device = "absent"
NukeDevice(device) == device = "absent" \/ device = "revoked"

\* MetaContext.SwitchUserNukeConfig: the entry of n is deleted
NukeUser(c, n) ==
    [current |-> IF c.current = n THEN NoUser ELSE c.current,
     users |-> [u \in Users |-> IF u = n THEN NoEntry ELSE c.users[u]]]

\* loadMe: the error returned after SwitchUserNukeConfig returned tmp
NukeOutcomeEscalated(tmp) == IF tmp # nil THEN tmp ELSE errNoDevice
NukeOutcome(tmp) == errNoDevice

\* loadMe: e.username after the device check
UsernameAfterCheckKept(old, canonical, nuke) == old
UsernameAfterCheckEarly(old, canonical, nuke) == canonical
UsernameAfterCheck(old, canonical, nuke) == IF nuke THEN old ELSE canonical

\* loadMe: is the device of the config still a signing device of the user?
LoadMeDevice(e) ==
    /\ pc[e] = "device"
    /\ LET canonical == NewNormalizedUsername(upak[e].Username)
           device == FindSigningDeviceKey(upak[e], deviceID[e])
           nukeDevice == NukeDevice(device)
       IN /\ nu' = [nu EXCEPT ![e] = canonical]
          /\ username' = [username EXCEPT ![e] = UsernameAfterCheck(@, canonical, nukeDevice)]
          /\ IF nukeDevice
                THEN \E tmp \in {nil, NukeError} :
                        /\ config' = IF tmp = nil THEN NukeUser(config, canonical)
                                     ELSE config
                        /\ calls' = [calls EXCEPT ![e] =
                              Append(@, Call("SwitchUserNukeConfig", canonical, tmp))]
                        /\ err' = [err EXCEPT ![e] = NukeOutcome(tmp)]
                ELSE /\ err' = [err EXCEPT ![e] = nil]
                     /\ UNCHANGED <<config, calls>>
    /\ pc' = [pc EXCEPT ![e] = "loaded"]
    /\ UNCHANGED <<session, SecretStoreOnly, start, in, uid, deviceID, upak,
                   runErr, result, runs>>

\* ------------------------------------------------------ run: after loadMe
\* run: err = e.loadMe(m); if err != nil
LoadMeFailedIgnored(lerr) == FALSE
LoadMeFailed(lerr) == lerr # nil

\* run: the value returned when loadMe failed
LoadMeFailure(lerr) == nil

AfterLoadMe(e) ==
    /\ pc[e] = "loaded"
    /\ calls' = [calls EXCEPT ![e] = Append(@, Call("loadMe", Empty, err[e]))]
    /\ IF LoadMeFailed(err[e])
          THEN /\ runErr' = [runErr EXCEPT ![e] = LoadMeFailure(err[e])]
               /\ pc' = [pc EXCEPT ![e] = "Run"]
          ELSE /\ pc' = [pc EXCEPT ![e] = "login"]
               /\ UNCHANGED runErr
    /\ UNCHANGED <<session, config, username, SecretStoreOnly, start, in, uid,
                   deviceID, upak, nu, err, result, runs>>

\* ------------------------------------------------------------- run: login
\* run: afterLogin, given the result of SetDeviceProvisioned
afterLoginFatal(saveErr) == saveErr
afterLogin(saveErr) == nil

\* run: the login delegation selected by e.SecretStoreOnly
LoginModeSwapped(sso) == IF sso THEN "LoginWithPrompt" ELSE "LoginWithStoredSecret"
LoginMode(sso) == IF sso THEN "LoginWithStoredSecret" ELSE "LoginWithPrompt"

\* the user a login for name logs in: the named one, or the current one
LoginTarget(c, name) == IF Len(name) = 0 THEN c.current ELSE name

\* LoginState: the session after a login of user u
LoggedIn(c, u) == [current |-> u, users |-> c.users]

\* run: the value returned after the login delegation returned lerr
RunResult(lerr, outer) == IF lerr # nil THEN lerr ELSE IF outer # nil THEN outer ELSE nil

\* run: the login delegation with its afterLogin callback
Login(e) ==
    /\ pc[e] = "login"
    /\ LET op == LoginMode(SecretStoreOnly[e])
           target == LoginTarget(config, username[e])
       IN \/ \E lerr \in LoginErrors :
                /\ calls' = [calls EXCEPT ![e] = Append(@, Call(op, username[e], lerr))]
                /\ runErr' = [runErr EXCEPT ![e] = RunResult(lerr, err[e])]
                /\ UNCHANGED <<session, config>>
          \/ /\ target \in Users
             /\ \E saveErr \in {nil, SaveError} :
                  LET cb == afterLogin(saveErr)
                      after == LoggedIn(config, target)
                  IN /\ calls' = [calls EXCEPT ![e] =
                            @ \o <<Call(op, username[e], cb),
                                   Call("SetDeviceProvisioned", after.users[target], saveErr)>>]
                     /\ runErr' = [runErr EXCEPT ![e] = RunResult(cb, err[e])]
                     /\ IF cb = nil
                           THEN /\ session' = UIDOf(target)
                                /\ config' = after
                           ELSE UNCHANGED <<session, config>>
    /\ pc' = [pc EXCEPT ![e] = "Run"]
    /\ UNCHANGED <<username, SecretStoreOnly, start, in, uid, deviceID, upak, nu,
                   err, result, runs>>

\* ------------------------------------------------------------ Run: return
\* Run: the value returned for the value e.run returned
RunReturnSwallowed(rerr) == nil
RunReturn(rerr) == IF rerr # nil THEN rerr ELSE nil

\* Run: the login notification and the login hooks
PostLoginHooksFirst(rerr, name) ==
    IF rerr # nil THEN <<>>
    ELSE <<Call("CallLoginHooks", Empty, nil), Call("HandleLogin", name, nil)>>
PostLoginNotifyTwice(rerr, name) ==
    IF rerr # nil THEN <<>>
    ELSE <<Call("HandleLogin", name, nil), Call("HandleLogin", name, nil),
           Call("CallLoginHooks", Empty, nil)>>
PostLogin(rerr, name) ==
    IF rerr # nil THEN <<>>
    ELSE <<Call("HandleLogin", name, nil), Call("CallLoginHooks", Empty, nil)>>

\* Run: e.run has returned
RunDone(e) ==
    /\ pc[e] = "Run"
    /\ calls' = [calls EXCEPT ![e] = @ \o PostLogin(runErr[e], config.current)]
    /\ result' = [result EXCEPT ![e] = RunReturn(runErr[e])]
    /\ pc' = [pc EXCEPT ![e] = "done"]
    /\ UNCHANGED <<session, config, username, SecretStoreOnly, start, in, uid,
                   deviceID, upak, nu, err, runErr, runs>>

\* -------------------------------------------------------- specification
Next ==
    \E e \in Engines :
        \/ Run(e)
        \/ IsLoggedIn(e)
        \/ LoadMeConfig(e)
        \/ LoadMeLoadV2(e)
        \/ LoadMeDevice(e)
        \/ AfterLoadMe(e)
        \/ Login(e)
        \/ RunDone(e)

Spec == Init /\ [][Next]_vars

\* ------------------------------------------------- reading the call log
LoginOps == {"LoginWithStoredSecret", "LoginWithPrompt"}
ConfigOps == {"GetUserConfig", "GetUserConfigForUsername"}
NotifyOps == {"HandleLogin", "CallLoginHooks"}
FailedOutcomes == {errNoConfig, errNoDevice, UserDeletedError}

At(e, ops) == {i \in DOMAIN calls[e] : calls[e][i].op \in ops}
Count(e, ops) == Cardinality(At(e, ops))

\* Run was invoked while logged in as U with an empty username or with U
InvokedLoggedInAsRequested(e) ==
    /\ pc[e] # "idle"
    /\ start[e].session # NoUID
    /\ \/ start[e].username = Empty
       \/ start[e].username = GetUsernameForUID(start[e].session)

\* loadMe has returned in the current invocation
LoadMeReturned(e) == err[e] # none

\* C1: invoked while logged in as U with an empty username or with U, Run
\* calls neither the configuration store, nor LoadV2, nor
\* SwitchUserNukeConfig, nor a login delegation, and it returns nil.
C1_ShortCircuitNoCalls ==
    \A e \in Engines :
        InvokedLoggedInAsRequested(e) =>
            /\ Count(e, ConfigOps \cup {"LoadV2", "SwitchUserNukeConfig"} \cup LoginOps) = 0
            /\ pc[e] = "done" => result[e] = nil

C1_Witness ==
    \E e \in Engines :
        /\ pc[e] = "done"
        /\ InvokedLoggedInAsRequested(e)
        /\ start[e].username = Alice
        /\ result[e] = nil

C3_ValidationFailureReturned ==
    \A e \in Engines :
        (pc[e] = "done" /\ ~InvokedLoggedInAsRequested(e)
            /\ err[e] \in FailedOutcomes) => result[e] = err[e]

\* the user Run is to log in: the requested one, or the configured one
TargetUser(e) ==
    IF start[e].username = Empty THEN config.current ELSE start[e].username

\* C4: when Run has returned nil the session is logged in as the target user.
C4_SuccessMeansLoggedIn ==
    \A e \in Engines :
        (pc[e] = "done" /\ result[e] = nil) =>
            /\ session # NoUID
            /\ GetUsernameForUID(session) = TargetUser(e)

\* C5: isLoggedIn is the first call of an invocation; a login delegation is
\* preceded by a loadMe that returned nil; when loadMe returned an error there
\* is no login delegation.
C5_Ordering ==
    \A e \in Engines :
        /\ calls[e] # <<>> => calls[e][1].op = "isLoggedIn"
        /\ \A i \in At(e, LoginOps) :
              \E j \in At(e, {"loadMe"}) : j < i /\ calls[e][j].res = nil
        /\ (LoadMeReturned(e) /\ err[e] # nil) => Count(e, LoginOps) = 0

C5_Witness ==
    \E e \in Engines :
        /\ pc[e] = "done"
        /\ Count(e, LoginOps) = 1
        /\ Count(e, {"LoadV2"}) = 1

\* the index of the login delegation that returned nil, if there is one
LoginSucceededAt(e) == {i \in At(e, LoginOps) : calls[e][i].res = nil}

\* C6: after a login delegation that returned nil, SetDeviceProvisioned is the
\* next call, whatever it returns; Run then emits HandleLogin once and then
\* CallLoginHooks once, and nothing else.
C6_PostLoginEffects ==
    \A e \in Engines :
        \A i \in LoginSucceededAt(e) :
            /\ Len(calls[e]) > i
            /\ calls[e][i + 1].op = "SetDeviceProvisioned"
            /\ Count(e, {"SetDeviceProvisioned"}) = 1
            /\ pc[e] = "Run" => Len(calls[e]) = i + 1
            /\ pc[e] = "done" =>
                  /\ Len(calls[e]) = i + 3
                  /\ calls[e][i + 2].op = "HandleLogin"
                  /\ calls[e][i + 3].op = "CallLoginHooks"

C6_Witness ==
    \E e \in Engines :
        /\ pc[e] = "done"
        /\ \E i \in LoginSucceededAt(e) : calls[e][i + 1].res = SaveError
        /\ Count(e, {"HandleLogin"}) = 1

\* the record was fetched, the account is not deleted, and the device of the
\* local configuration is missing from the record or revoked in it
StaleDevice(e) ==
    /\ upak[e].Status = SCOk
    /\ deviceID[e] \in DeviceIDs
    /\ upak[e].Devices[deviceID[e]] \in {"absent", "revoked"}

\* C7: for a record that is not deleted and in which the stored device is
\* missing or revoked, loadMe returns errNoDevice and calls
\* SwitchUserNukeConfig exactly once, for the username of the record.
C7_StaleDeviceNuked ==
    \A e \in Engines :
        (StaleDevice(e) /\ LoadMeReturned(e)) =>
            /\ err[e] = errNoDevice
            /\ Count(e, {"SwitchUserNukeConfig"}) = 1
            /\ \A i \in At(e, {"SwitchUserNukeConfig"}) :
                  calls[e][i].arg = NewNormalizedUsername(upak[e].Username)

C7_Witness ==
    \E e \in Engines :
        /\ pc[e] = "done"
        /\ StaleDevice(e)
        /\ upak[e].Devices[deviceID[e]] = "revoked"
        /\ upak[e].Username = <<"A">>
        /\ err[e] = errNoDevice

\* C8: for a record whose status is deleted, loadMe returns UserDeletedError
\* whatever the record says of the stored device, SwitchUserNukeConfig is not
\* called and the local configuration is as it was when Run was invoked.
C8_DeletedAccount ==
    \A e \in Engines :
        upak[e].Status = SCDeleted =>
            /\ err[e] = UserDeletedError
            /\ Count(e, {"SwitchUserNukeConfig"}) = 0
            /\ config = start[e].config

C8_Witness ==
    \E e \in Engines :
        /\ pc[e] = "done"
        /\ upak[e].Status = SCDeleted
        /\ upak[e].Devices[deviceID[e]] = "revoked"
        /\ err[e] = UserDeletedError

\* what the read of the local configuration returned, if it happened
ConfigRead(e) == {calls[e][i].res : i \in At(e, ConfigOps)}

\* C9: when the read of the local configuration fails or finds no entry,
\* loadMe returns errNoConfig; when the entry has a nil device ID, it returns
\* errNoDevice; in both cases LoadV2 is not called and the local
\* configuration is as it was when Run was invoked.
C9_LocalDecision ==
    \A e \in Engines :
        /\ ConfigRead(e) \cap {"error", NoEntry} # {} => err[e] = errNoConfig
        /\ NilDevice \in ConfigRead(e) => err[e] = errNoDevice
        /\ ConfigRead(e) \cap {"error", NoEntry, NilDevice} # {} =>
              /\ Count(e, {"LoadV2", "SwitchUserNukeConfig"}) = 0
              /\ config = start[e].config

C9_Witness ==
    \E e \in Engines :
        /\ pc[e] = "done"
        /\ NilDevice \in ConfigRead(e)
        /\ err[e] = errNoDevice

\* the login delegations that returned an error
LoginFailedAt(e) == {i \in At(e, LoginOps) : calls[e][i].res # nil}

\* C10: when the login delegation returns an error, it is the only login
\* delegation of the invocation, neither HandleLogin nor CallLoginHooks is
\* called, and Run returns that error.
C10_LoginFailure ==
    \A e \in Engines :
        \A i \in LoginFailedAt(e) :
            /\ Count(e, LoginOps) = 1
            /\ Count(e, NotifyOps) = 0
            /\ pc[e] = "done" => result[e] = calls[e][i].res

C10_Witness ==
    \E e \in Engines :
        /\ pc[e] = "done"
        /\ \E i \in LoginFailedAt(e) : calls[e][i].res = "LoginErrB"
        /\ result[e] = "LoginErrB"

\* C11: an invocation makes at most one login delegation; it is
\* LoginWithStoredSecret when SecretStoreOnly is set and LoginWithPrompt
\* otherwise, also after the delegation failed.
C11_OneLoginMode ==
    \A e \in Engines :
        /\ Count(e, LoginOps) <= 1
        /\ \A i \in At(e, LoginOps) :
              calls[e][i].op = "LoginWithStoredSecret" <=> SecretStoreOnly[e]

C11_Witness ==
    \E e \in Engines :
        /\ pc[e] = "done"
        /\ SecretStoreOnly[e]
        /\ \E i \in LoginFailedAt(e) : calls[e][i].op = "LoginWithStoredSecret"
        /\ Count(e, LoginOps) = 1

\* C12: when LoadV2 fails, loadMe returns that error, neither
\* SwitchUserNukeConfig nor a login delegation is called, and Run returns that
\* error to its caller.
C12_FetchFailureReturned ==
    \A e \in Engines :
        \A i \in At(e, {"LoadV2"}) :
            calls[e][i].res \in LoadErrors =>
                /\ err[e] = calls[e][i].res
                /\ Count(e, {"SwitchUserNukeConfig"} \cup LoginOps) = 0
                /\ pc[e] = "done" => result[e] = calls[e][i].res

\* C13: not short-circuited and loadMe returned an error (errNoConfig,
\* errNoDevice, UserDeletedError or the error of LoadV2), Run calls neither
\* HandleLogin nor CallLoginHooks.
C13_NoEffectsOnFailure ==
    \A e \in Engines :
        (~InvokedLoggedInAsRequested(e) /\ LoadMeReturned(e) /\ err[e] # nil) =>
            Count(e, NotifyOps) = 0

\* C14: when SwitchUserNukeConfig was called, loadMe returns errNoDevice
\* whether the deletion returned nil or an error; the deletion is called once
\* and its error is returned neither by run nor by Run.
C14_CleanupNotEscalated ==
    \A e \in Engines :
        \A i \in At(e, {"SwitchUserNukeConfig"}) :
            /\ err[e] = errNoDevice
            /\ Count(e, {"SwitchUserNukeConfig"}) = 1
            /\ runErr[e] # NukeError
            /\ result[e] # NukeError

C14_Witness ==
    \E e \in Engines :
        /\ pc[e] = "done"
        /\ \E i \in At(e, {"SwitchUserNukeConfig"}) : calls[e][i].res = NukeError
        /\ err[e] = errNoDevice

\* C15: when SetDeviceProvisioned fails, the login delegation that called
\* afterLogin still returns nil, run returns nil, Run returns nil and the
\* session is logged in as e.username.
C15_MarkerFailureNotFatal ==
    \A e \in Engines :
        \A i \in At(e, {"SetDeviceProvisioned"}) :
            calls[e][i].res = SaveError =>
                /\ i > 1
                /\ calls[e][i - 1].op \in LoginOps
                /\ calls[e][i - 1].res = nil
                /\ runErr[e] = nil
                /\ session = UIDOf(username[e])
                /\ pc[e] = "done" => result[e] = nil

C15_Witness ==
    \E e \in Engines :
        /\ pc[e] = "done"
        /\ \E i \in At(e, {"SetDeviceProvisioned"}) : calls[e][i].res = SaveError
        /\ result[e] = nil
        /\ session = UIDOf(username[e])

\* isLoggedIn has returned in the current invocation
Checked(e) == pc[e] \notin {"idle", "run"}

\* C16: invoked while logged out, or while logged in as U with a non-empty
\* username other than U, run does not return at the short circuit: loadMe
\* runs, reading the configuration of the requested username (of the current
\* user when it is empty).
C16_NoShortCircuitForOther ==
    \A e \in Engines :
        (Checked(e) /\ ~InvokedLoggedInAsRequested(e)) =>
            /\ pc[e] = "loadMe" \/ Count(e, ConfigOps) = 1
            /\ \A i \in At(e, ConfigOps) :
                  /\ calls[e][i].arg = start[e].username
                  /\ calls[e][i].op = "GetUserConfig" <=> start[e].username = Empty
            /\ pc[e] = "done" => Count(e, {"loadMe"}) = 1

C16_Witness ==
    \E e \in Engines :
        /\ pc[e] = "done"
        /\ start[e].session = "uid_a"
        /\ start[e].username = Bob
        /\ Count(e, {"loadMe"}) = 1

\* C17: the username passed to the login delegation is the normalized
\* username of the fetched record, it is not empty, and the device ID of the
\* local configuration is not nil and is an unrevoked signing device of the
\* record.
C17_CanonicalUsername ==
    \A e \in Engines :
        \A i \in At(e, LoginOps) :
            /\ upak[e].Status = SCOk
            /\ calls[e][i].arg = NewNormalizedUsername(upak[e].Username)
            /\ calls[e][i].arg # Empty
            /\ deviceID[e] \in DeviceIDs
            /\ upak[e].Devices[deviceID[e]] = "active"

C17_Witness ==
    \E e \in Engines :
        /\ pc[e] = "done"
        /\ start[e].username = Empty
        /\ upak[e].Username = <<"A">>
        /\ \E i \in At(e, LoginOps) : calls[e][i].arg = Alice

\* the deletion of the current invocation that returned nil, if there is one
NukedAt(e) == {i \in At(e, {"SwitchUserNukeConfig"}) : calls[e][i].res = nil}

\* C18: an invocation calls LoadV2 at most once and SwitchUserNukeConfig at
\* most once, and only for a stale device; the entries of the local
\* configuration are those of the invocation's start, less the entry deleted
\* by a SwitchUserNukeConfig that returned nil; with no such deletion and no
\* successful login the whole configuration is unchanged.
C18_BoundedEffects ==
    \A e \in Engines :
        /\ Count(e, {"LoadV2"}) <= 1
        /\ Count(e, {"SwitchUserNukeConfig"}) <= 1
        /\ Count(e, {"SwitchUserNukeConfig"}) = 1 => StaleDevice(e)
        /\ \A i \in NukedAt(e) : config = NukeUser(start[e].config, calls[e][i].arg)
        /\ (pc[e] # "idle" /\ NukedAt(e) = {}) =>
              /\ config.users = start[e].config.users
              /\ LoginSucceededAt(e) = {} => config = start[e].config

C18_Witness ==
    \E e \in Engines :
        /\ pc[e] = "done"
        /\ NukedAt(e) # {}
        /\ config # start[e].config
        /\ Count(e, {"LoadV2"}) = 1

\* C19 as stated: when an invocation has completed, e.username is what it was
\* when Run was invoked.
C19_UsernameUnchanged ==
    \A e \in Engines :
        pc[e] = "done" => username[e] = start[e].username

\* C19 amended: no step changes e.SecretStoreOnly, and e.username changes only
\* in the step of loadMe that finds the device valid, to the normalized
\* username of the fetched record.
C19_EngineState ==
    [][\A e \in Engines :
          /\ SecretStoreOnly'[e] = SecretStoreOnly[e]
          /\ username'[e] # username[e] =>
                /\ pc[e] = "device"
                /\ err'[e] = nil
                /\ username'[e] = NewNormalizedUsername(upak[e].Username)]_vars

C19_Witness ==
    \E e \in Engines :
        /\ pc[e] = "done"
        /\ start[e].username = Empty
        /\ username[e] = Alice
        /\ err[e] = nil

\* ------------------------------------------- two concurrent invocations
\* the configurations of a client on which only Alice may be provisioned
AliceConfigs == {c \in Configs : c.current # Bob /\ c.users[Bob] = NoEntry}

\* two engines built for the same user on a logged-out client, each to run
\* once; their steps interleave, each call to a collaborator is one step
InitConc ==
    /\ session = NoUID
    /\ config \in AliceConfigs
    /\ pc = [e \in Engines |-> "idle"]
    /\ \E raw \in {Empty, <<"a">>, <<"A">>}, sso \in BOOLEAN :
          /\ username = [e \in Engines |-> NewNormalizedUsername(raw)]
          /\ SecretStoreOnly = [e \in Engines |-> sso]
    /\ start = [e \in Engines |-> NoStart]
    /\ in = [e \in Engines |-> FALSE]
    /\ uid = [e \in Engines |-> NoUID]
    /\ deviceID = [e \in Engines |-> none]
    /\ upak = [e \in Engines |-> NoUpak]
    /\ nu = [e \in Engines |-> Empty]
    /\ err = [e \in Engines |-> none]
    /\ runErr = [e \in Engines |-> none]
    /\ result = [e \in Engines |-> none]
    /\ calls = [e \in Engines |-> <<>>]
    /\ runs = [e \in Engines |-> MaxRuns - 1]

SpecConc == InitConc /\ [][Next]_vars

Total(ops) == Count("e1", ops) + Count("e2", ops)

====
